---- MODULE Spec2Model ----
(***************************************************************************)
(* A model of brightray's Linux notification presenter                     *)
(* (browser/linux/notification_presenter_linux.cc).                        *)
(*                                                                         *)
(* The presenter is a shim over libnotify.  The model keeps the            *)
(* presenter's own state (notifications_, the two unity_* statics), the    *)
(* state of every NotifyNotification object it created (its "delegate"     *)
(* object data, its reference count, whether the "default" action was      *)
(* registered), and what the caller can observe (the events each delegate  *)
(* received, the cancel closures handed out).  The notification service    *)
(* and the process environment are the model's environment: which          *)
(* libraries load, whether a show/close call reports an error, which       *)
(* notifications the service has open, and the contents of /usr/lib.       *)
(***************************************************************************)
EXTENDS Integers, Sequences, FiniteSets, TLC

\* Number of ShowNotification calls explored.
MaxNotif == 2

Handles == 1..MaxNotif
\* nullptr, as a NotifyNotification*.
NULL == 0
\* The delegates callers pass in.  delegate_ptr is a scoped_ptr, so every
\* call brings a delegate that no other call brought.
Delegates == 1..MaxNotif
NoDelegate == 0

----------------------------------------------------------------------------
(* NotificationPresenterLinux::Init and NotificationPresenter::Create      *)

\* The names handed to libnotify_loader_.Load, in the order of the && chain.
LibNames == <<"libnotify.so.4", "libnotify.so.1", "libnotify.so">>

\* What the process environment decides for Create: the libraries that
\* load, notify_is_initted() and the result of notify_init().
LibEnvs ==
  [loadable : SUBSET {LibNames[i] : i \in 1..Len(LibNames)},
   initted : BOOLEAN,
   initOk : BOOLEAN]

\* Index of the first name whose Load succeeds; 0 when none does.
FirstLoaded(loadable) ==
  IF \E i \in 1..Len(LibNames) : LibNames[i] \in loadable
  THEN CHOOSE i \in 1..Len(LibNames) :
         /\ LibNames[i] \in loadable
         /\ \A j \in 1..(i - 1) : LibNames[j] \notin loadable
  ELSE 0

\* The Load calls made by the short-circuit && chain of Init.
LoadAttempts(loadable) ==
  IF FirstLoaded(loadable) = 0
  THEN LibNames
  ELSE SubSeq(LibNames, 1, FirstLoaded(loadable))

\* Mutant of NotifyInitCalled: notify_init is called whatever
\* notify_is_initted() says.
NotifyInitCalledAlways(e) ==
  FirstLoaded(e.loadable) # 0

\* notify_init is reached only when a library loaded and
\* notify_is_initted() is false (the second && chain).
NotifyInitCalled(e) ==
  FirstLoaded(e.loadable) # 0 /\ ~e.initted

\* The value Init returns.
PresenterInit(e) ==
  IF FirstLoaded(e.loadable) = 0
  THEN FALSE
  ELSE IF ~e.initted /\ ~e.initOk
       THEN FALSE
       ELSE TRUE

----------------------------------------------------------------------------
(* UnityIsRunning                                                          *)

\* Paths are sequences of path pieces, so that StartsWith is a real prefix
\* test.  An entry of /usr/lib is a path and whether it is a directory.
UnityPrefix == <<"/usr/lib/", "libunity", "-">>

UsrLibEntries ==
  { [path |-> <<"/usr/lib/", "libunity", "-", "core.so">>, dir |-> FALSE],
    [path |-> <<"/usr/lib/", "libunity", ".so">>, dir |-> FALSE],
    [path |-> <<"/usr/lib/", "libunity", "-", "webapps">>, dir |-> TRUE] }

\* base::StartsWith(s, prefix, SENSITIVE)
StartsWith(s, prefix) ==
  /\ Len(s) >= Len(prefix)
  /\ SubSeq(s, 1, Len(prefix)) = prefix

\* The FileEnumerator loop: non-recursive, FILES only; true when some
\* enumerated path starts with /usr/lib/libunity-.
ScanUsrLib(dirEntries) ==
  \E f \in dirEntries : ~f.dir /\ StartsWith(f.path, UnityPrefix)

\* Mutant of UnityIsRunning: the cached result is consulted before the
\* environment variable.
UnityIsRunningCacheFirst(envSet, hasResult, result, dirEntries) ==
  IF hasResult
  THEN [ret |-> result, has |-> hasResult, res |-> result, scanned |-> FALSE]
  ELSE IF envSet
       THEN [ret |-> TRUE, has |-> hasResult, res |-> result, scanned |-> FALSE]
       ELSE [ret |-> result \/ ScanUsrLib(dirEntries), has |-> TRUE,
             res |-> result \/ ScanUsrLib(dirEntries), scanned |-> TRUE]

\* UnityIsRunning(): the value returned (ret), the two statics after the
\* call (has, res) and whether the call enumerated /usr/lib (scanned).
UnityIsRunning(envSet, hasResult, result, dirEntries) ==
  IF envSet
  THEN [ret |-> TRUE, has |-> hasResult, res |-> result, scanned |-> FALSE]
  ELSE IF hasResult
       THEN [ret |-> result, has |-> hasResult, res |-> result,
             scanned |-> FALSE]
       ELSE [ret |-> result \/ ScanUsrLib(dirEntries), has |-> TRUE,
             res |-> result \/ ScanUsrLib(dirEntries), scanned |-> TRUE]

----------------------------------------------------------------------------
(* State                                                                   *)

VARIABLES
  libEnv,          \* what Load / notify_is_initted / notify_init answer in Create
  createRet,       \* "unset", "presenter" or "null": what Create returned
  presenter,       \* "none", "live" or "destroyed"
  loadTried,       \* the Load calls made, in order
  initCalls,       \* number of notify_init calls made
  notifications_,  \* the GList of tracked handles, in list order
  created,         \* number of notify_notification_new calls so far
  objDelegate,     \* handle -> its "delegate" object data
  refcount,        \* handle -> references held on the GObject
  unrefs,          \* handle -> g_object_unref calls the presenter made on it
  actionReg,       \* handle -> the "default" action was added
  image,           \* handle -> the live object carries an image and timeout
  svcOpen,         \* handle -> the service has the notification open
  showRes,         \* handle -> "none", "ok" or "err": notify_notification_show
  errLog,          \* handle -> context of the error logged for it, or "none"
  removedBy,       \* handle -> the operation that untracked it, or "none"
  cbGiven,         \* handle -> cancel_callback was a non-null pointer
  cancelCb,        \* handles for which *cancel_callback was written
  evlog,           \* delegate -> the events it received, in order
  delDestroyed,    \* delegate -> times operator delete ran on it
  envUbuntu,       \* getenv("ELECTRON_USE_UBUNTU_NOTIFIER") is non-null
  usrLib,          \* the entries of /usr/lib
  unity_has_result,
  unity_result,
  scanCount,       \* number of enumerations of /usr/lib made
  firstScan,       \* "none", or what the first enumeration found: "true"
                   \* or "false"
  lastCall,        \* the latest UnityIsRunning call: whether one was made,
                   \* whether the variable was set, what it returned
  unityAt,         \* handle -> "none", or what UnityIsRunning returned in
                   \* the ShowNotification call that created it: "true"
                   \* or "false"
  ub               \* "none", or how undefined behaviour ended the run:
                   \* "crashed" or "stale" (freed memory was used)

vars ==
  <<libEnv, createRet, presenter, loadTried, initCalls, notifications_,
    created, objDelegate, refcount, unrefs, actionReg, image, svcOpen,
    showRes, errLog, removedBy, cbGiven, cancelCb, evlog, delDestroyed,
    envUbuntu, usrLib, unity_has_result, unity_result, scanCount, firstScan,
    lastCall, unityAt, ub>>

loaderVars == <<libEnv, createRet, loadTried, initCalls>>
unityVars ==
  <<unity_has_result, unity_result, scanCount, firstScan, lastCall, unityAt>>
envVars == <<envUbuntu, usrLib>>
showVars == <<created, actionReg, showRes, cbGiven, cancelCb>>

\* An environment in which Create succeeds after one failed Load.
TypicalLibEnv ==
  [loadable |-> {"libnotify.so.1", "libnotify.so"}, initted |-> FALSE,
   initOk |-> TRUE]

\* The state before Create: no presenter, the statics at their
\* initialisers (lines 23-24), and an environment drawn from libEnvs and
\* dirs.
InitWith(libEnvs, dirs) ==
  /\ libEnv \in libEnvs
  /\ createRet = "unset"
  /\ presenter = "none"
  /\ loadTried = <<>>
  /\ initCalls = 0
  /\ notifications_ = <<>>
  /\ created = 0
  /\ objDelegate = [n \in Handles |-> NoDelegate]
  /\ refcount = [n \in Handles |-> 0]
  /\ unrefs = [n \in Handles |-> 0]
  /\ actionReg = [n \in Handles |-> FALSE]
  /\ image = [n \in Handles |-> FALSE]
  /\ svcOpen = [n \in Handles |-> FALSE]
  /\ showRes = [n \in Handles |-> "none"]
  /\ errLog = [n \in Handles |-> "none"]
  /\ removedBy = [n \in Handles |-> "none"]
  /\ cbGiven = [n \in Handles |-> FALSE]
  /\ cancelCb = {}
  /\ evlog = [d \in Delegates |-> <<>>]
  /\ delDestroyed = [d \in Delegates |-> 0]
  /\ envUbuntu = FALSE
  /\ usrLib \in dirs
  /\ unity_has_result = FALSE
  /\ unity_result = FALSE
  /\ scanCount = 0
  /\ firstScan = "none"
  /\ lastCall = [made |-> FALSE, env |-> FALSE, ret |-> FALSE]
  /\ unityAt = [n \in Handles |-> "none"]
  /\ ub = "none"

\* The presenter's life in a typical environment, /usr/lib either
\* without or with libunity.
Init == InitWith({TypicalLibEnv}, {{}, UsrLibEntries})

\* Create under every environment.
InitCreate == InitWith(LibEnvs, SUBSET UsrLibEntries)

\* UnityIsRunning under every content of /usr/lib.
InitUnity == InitWith({TypicalLibEnv}, SUBSET UsrLibEntries)

----------------------------------------------------------------------------
(* Helpers                                                                 *)

\* A boolean as a string, for the variables that also hold "none".
BoolStr(b) == IF b THEN "true" ELSE "false"

\* The handles in the list.
TrackedSet == {notifications_[i] : i \in 1..Len(notifications_)}

\* Mutant of GListRemove: the list is left as it was.
GListRemoveNothing(list, n) ==
  list

\* g_list_remove: drops the first element equal to n, keeps the order of
\* the others; the list is unchanged when n is not in it.
GListRemove(list, n) ==
  IF \E i \in 1..Len(list) : list[i] = n
  THEN LET k == CHOOSE i \in 1..Len(list) :
                  list[i] = n /\ \A j \in 1..(i - 1) : list[j] # n
       IN SubSeq(list, 1, k - 1) \o SubSeq(list, k + 1, Len(list))
  ELSE list

\* Mutant of GetDelegateFromNotification: the delegate of the head of the
\* tracked list is returned, whatever the notification.
GetDelegateOfListHead(n) ==
  IF notifications_ = <<>> THEN objDelegate[n]
  ELSE objDelegate[Head(notifications_)]

\* g_object_get_data(notification, "delegate")
GetDelegateFromNotification(n) ==
  objDelegate[n]

\* delegate->ev(): the delegate's log with ev delivered.
Deliver(log, d, ev) ==
  [log EXCEPT ![d] = Append(@, ev)]

\* g_object_unref on a live object holding its last reference: the object
\* is finalized, which runs operator delete on its "delegate" data.
Unref(n) ==
  /\ refcount' = [refcount EXCEPT ![n] = 0]
  /\ image' = [image EXCEPT ![n] = FALSE]
  /\ unrefs' = [unrefs EXCEPT ![n] = @ + 1]
  /\ delDestroyed' = [delDestroyed EXCEPT ![objDelegate[n]] = @ + 1]

\* DeleteNotification: g_list_remove, then g_object_unref.
DeleteNotification(n) ==
  /\ notifications_' = GListRemove(notifications_, n)
  /\ Unref(n)

----------------------------------------------------------------------------
(* Operations of the presenter                                             *)

\* NotificationPresenter::Create: builds a presenter, runs Init on it and
\* returns it, or lets the scoped_ptr destroy it and returns nullptr.
Create ==
  /\ createRet = "unset"
  /\ ub = "none"
  /\ loadTried' = LoadAttempts(libEnv.loadable)
  /\ initCalls' = IF NotifyInitCalled(libEnv) THEN initCalls + 1 ELSE initCalls
  /\ UNCHANGED libEnv
  /\ IF PresenterInit(libEnv)
     THEN createRet' = "presenter" /\ presenter' = "live"
     ELSE createRet' = "null" /\ presenter' = "destroyed"
  /\ UNCHANGED <<notifications_, objDelegate, refcount, unrefs, image,
                 svcOpen, errLog, removedBy, evlog, delDestroyed, ub>>
  /\ UNCHANGED <<showVars, unityVars, envVars>>

\* Mutant of ShowTracks: g_list_prepend instead of g_list_append.
ShowTracksPrepend(list, n, err) ==
  IF err THEN list ELSE <<n>> \o list

\* Mutant of ShowTracks: the handle is appended whatever the show call
\* reported.
ShowTracksAlways(list, n, err) ==
  Append(list, n)

\* Lines 133-139: the list after ShowNotification.
ShowTracks(list, n, err) ==
  IF err THEN list ELSE Append(list, n)

\* Mutant of ShowDelivers: the NotificationDisplayed call is missing.
ShowDeliversNothing(log, d, err) ==
  log

\* Mutant of ShowDelivers: NotificationDisplayed is delivered before the
\* error check.
ShowDeliversAlways(log, d, err) ==
  Deliver(log, d, "Displayed")

\* Lines 133-140: the delegates' logs after ShowNotification.
ShowDelivers(log, d, err) ==
  IF err THEN log ELSE Deliver(log, d, "Displayed")

\* Mutant of ShowBindsCancel: the closure is bound before the error check.
ShowBindsCancelOnError(cbs, n, cbNonNull, err) ==
  IF cbNonNull THEN cbs \cup {n} ELSE cbs

\* Lines 133-146: the cancel closures handed out after ShowNotification.
ShowBindsCancel(cbs, n, cbNonNull, err) ==
  IF ~err /\ cbNonNull THEN cbs \cup {n} ELSE cbs

\* Mutant of ShowAddsAction: the action is added whatever the shell.
ShowAddsActionAlways(unity) ==
  TRUE

\* Lines 117-120: whether ShowNotification adds the "default" action.
ShowAddsAction(unity) ==
  ~unity

\* The delegate the next ShowNotification call brings: a fresh one.  Which
\* one is immaterial, so they are handed out in descending order (the
\* delegate is not the handle's own number).
FreshDelegate == MaxNotif - created

\* ShowNotification(data, icon, delegate_ptr, cancel_callback): d is the
\* delegate released from delegate_ptr, drawsNothing is
\* icon.drawsNothing(), cbNonNull says whether cancel_callback is
\* non-null, and err whether notify_notification_show set an error.
ShowNotification(d, drawsNothing, cbNonNull, err) ==
  LET n == created + 1
      u == UnityIsRunning(envUbuntu, unity_has_result, unity_result, usrLib)
  IN
  /\ presenter = "live"
  /\ ub = "none"
  /\ created < MaxNotif
  /\ \A m \in Handles : objDelegate[m] # d
  /\ created' = n
  /\ objDelegate' = [objDelegate EXCEPT ![n] = d]
  /\ unity_has_result' = u.has
  /\ unity_result' = u.res
  /\ scanCount' = IF u.scanned THEN scanCount + 1 ELSE scanCount
  /\ firstScan' = IF u.scanned /\ firstScan = "none"
                  THEN BoolStr(u.ret) ELSE firstScan
  /\ lastCall' = [made |-> TRUE, env |-> envUbuntu, ret |-> u.ret]
  /\ unityAt' = [unityAt EXCEPT ![n] = BoolStr(u.ret)]
  /\ actionReg' = [actionReg EXCEPT ![n] = ShowAddsAction(u.ret)]
  /\ image' = [image EXCEPT ![n] = ~drawsNothing /\ ~err]
  /\ cbGiven' = [cbGiven EXCEPT ![n] = cbNonNull]
  /\ showRes' = [showRes EXCEPT ![n] = IF err THEN "err" ELSE "ok"]
  /\ errLog' = [errLog EXCEPT
                  ![n] = IF err THEN "notify_notification_show" ELSE @]
  /\ svcOpen' = [svcOpen EXCEPT ![n] = ~err]
  /\ refcount' = [refcount EXCEPT ![n] = IF err THEN 0 ELSE 1]
  /\ unrefs' = [unrefs EXCEPT ![n] = IF err THEN 1 ELSE 0]
  /\ delDestroyed' = [delDestroyed EXCEPT ![d] = IF err THEN @ + 1 ELSE @]
  /\ notifications_' = ShowTracks(notifications_, n, err)
  /\ evlog' = ShowDelivers(evlog, d, err)
  /\ cancelCb' = ShowBindsCancel(cancelCb, n, cbNonNull, err)
  /\ UNCHANGED <<loaderVars, presenter, removedBy, ub>>
  /\ UNCHANGED envVars

\* Mutant of CancelProceeds: a close error abandons the cancel.
CancelStopsOnError(err) ==
  ~err

\* Lines 152-156: CancelNotification has no return after logging the
\* error, so it goes on to notify and delete in both cases.
CancelProceeds(err) ==
  TRUE

\* CancelNotification(notification), run through the closure bound at
\* lines 143-146, on a pointer that is still valid.  err says whether
\* notify_notification_close set an error; the service closes the
\* notification when it did not.
CancelNotification(n, err) ==
  /\ n \in cancelCb
  /\ ub = "none"
  /\ presenter = "live"
  /\ refcount[n] > 0
  /\ svcOpen' = [svcOpen EXCEPT ![n] = IF err THEN @ ELSE FALSE]
  /\ errLog' = [errLog EXCEPT
                  ![n] = IF err THEN "notify_notification_close" ELSE @]
  /\ IF CancelProceeds(err)
     THEN /\ evlog' = Deliver(evlog, GetDelegateFromNotification(n), "Closed")
          /\ DeleteNotification(n)
          /\ removedBy' = [removedBy EXCEPT ![n] = "cancel"]
     ELSE UNCHANGED <<evlog, notifications_, refcount, unrefs, image,
                      delDestroyed, removedBy>>
  /\ UNCHANGED <<loaderVars, presenter, objDelegate, ub>>
  /\ UNCHANGED <<showVars, unityVars, envVars>>

\* The same closure run when the notification was already finalized or
\* the presenter already destroyed (base::Unretained, a raw
\* NotifyNotification*): undefined behaviour.  Either the process dies, or
\* the freed memory still reads as before: the close request goes out
\* with the old id, NotificationClosed is called on the freed delegate,
\* g_list_remove finds nothing and g_object_unref is called again.  The
\* model records the outcome in ub and follows the process no further.
CancelNotificationDangling(n, dies) ==
  /\ n \in cancelCb
  /\ ub = "none"
  /\ refcount[n] = 0 \/ presenter # "live"
  /\ IF dies
     THEN /\ ub' = "crashed"
          /\ UNCHANGED <<svcOpen, evlog, unrefs>>
     ELSE /\ ub' = "stale"
          /\ svcOpen' = [svcOpen EXCEPT ![n] = FALSE]
          /\ evlog' = Deliver(evlog, GetDelegateFromNotification(n), "Closed")
          /\ unrefs' = [unrefs EXCEPT ![n] = @ + 1]
  /\ UNCHANGED <<loaderVars, presenter, notifications_, objDelegate,
                 refcount, image, delDestroyed, errLog, removedBy>>
  /\ UNCHANGED <<showVars, unityVars, envVars>>

\* OnNotificationClosed(notification), reached through the "closed"
\* signal connected at line 111: the service closed a notification whose
\* object is alive (it expired or the user dismissed it).
OnNotificationClosed(n) ==
  /\ ub = "none"
  /\ presenter = "live"
  /\ IF n = NULL
     THEN UNCHANGED <<svcOpen, evlog, notifications_, refcount, unrefs,
                      image, delDestroyed, removedBy>>
     ELSE /\ refcount[n] > 0
          /\ svcOpen[n]
          /\ svcOpen' = [svcOpen EXCEPT ![n] = FALSE]
          /\ evlog' = Deliver(evlog, GetDelegateFromNotification(n), "Closed")
          /\ DeleteNotification(n)
          /\ removedBy' = [removedBy EXCEPT ![n] = "closed"]
  /\ UNCHANGED <<loaderVars, presenter, objDelegate, errLog, ub>>
  /\ UNCHANGED <<showVars, unityVars, envVars>>

\* OnNotificationView(notification, action), reached through the action
\* callback added at lines 118-119: the user invoked the "default" action
\* of an open notification.  The handler does not ask the service to
\* close; svcCloses says whether the service removes the notification on
\* its own after the action.
OnNotificationView(n, svcCloses) ==
  /\ ub = "none"
  /\ presenter = "live"
  /\ IF n = NULL
     THEN UNCHANGED <<svcOpen, evlog, notifications_, refcount, unrefs,
                      image, delDestroyed, removedBy>>
     ELSE /\ refcount[n] > 0
          /\ actionReg[n]
          /\ svcOpen[n]
          /\ svcOpen' = [svcOpen EXCEPT ![n] = ~svcCloses]
          /\ evlog' = Deliver(evlog, GetDelegateFromNotification(n), "Click")
          /\ DeleteNotification(n)
          /\ removedBy' = [removedBy EXCEPT ![n] = "click"]
  /\ UNCHANGED <<loaderVars, presenter, objDelegate, errLog, ub>>
  /\ UNCHANGED <<showVars, unityVars, envVars>>

\* Mutant of DestructorUnrefs: the list is freed with g_list_free, which
\* unrefs nothing.
DestructorUnrefsNothing(list) ==
  {}

\* Lines 81-82: the handles g_list_free_full(notifications_,
\* g_object_unref) unrefs, namely every element of the list.
DestructorUnrefs(list) ==
  {list[i] : i \in 1..Len(list)}

\* ~NotificationPresenterLinux: g_list_free_full(notifications_,
\* g_object_unref) unrefs every tracked handle and frees the list.
DestroyPresenter ==
  /\ ub = "none"
  /\ presenter = "live"
  /\ presenter' = "destroyed"
  /\ notifications_' = <<>>
  /\ refcount' = [n \in Handles |->
                    IF n \in DestructorUnrefs(notifications_) THEN 0 ELSE refcount[n]]
  /\ unrefs' = [n \in Handles |->
                  IF n \in DestructorUnrefs(notifications_) THEN unrefs[n] + 1 ELSE unrefs[n]]
  /\ image' = [n \in Handles |->
                 IF n \in DestructorUnrefs(notifications_) THEN FALSE ELSE image[n]]
  /\ delDestroyed' = [d \in Delegates |->
                        IF \E n \in DestructorUnrefs(notifications_) : objDelegate[n] = d
                        THEN delDestroyed[d] + 1 ELSE delDestroyed[d]]
  /\ removedBy' = [n \in Handles |->
                     IF n \in DestructorUnrefs(notifications_) THEN "destroy" ELSE removedBy[n]]
  /\ UNCHANGED <<loaderVars, objDelegate, svcOpen, errLog, evlog, ub>>
  /\ UNCHANGED <<showVars, unityVars, envVars>>

----------------------------------------------------------------------------
(* The environment                                                         *)

\* The service closes a notification whose object is already finalized:
\* no handler is connected any more, so nothing runs in the presenter.
ServiceClosesOrphan(n) ==
  /\ ub = "none"
  /\ svcOpen[n]
  /\ refcount[n] = 0
  /\ svcOpen' = [svcOpen EXCEPT ![n] = FALSE]
  /\ UNCHANGED <<loaderVars, presenter, notifications_, objDelegate,
                 refcount, unrefs, image, errLog, removedBy, evlog,
                 delDestroyed, ub>>
  /\ UNCHANGED <<showVars, unityVars, envVars>>

\* ELECTRON_USE_UBUNTU_NOTIFIER is set or unset in the environment.
SetEnv(b) ==
  /\ ub = "none"
  /\ envUbuntu # b
  /\ envUbuntu' = b
  /\ UNCHANGED usrLib
  /\ UNCHANGED <<loaderVars, presenter, notifications_, objDelegate,
                 refcount, unrefs, image, svcOpen, errLog, removedBy, evlog,
                 delDestroyed, ub>>
  /\ UNCHANGED <<showVars, unityVars>>

\* An entry appears in or disappears from /usr/lib.
ChangeUsrLib(f) ==
  /\ ub = "none"
  /\ usrLib' = IF f \in usrLib THEN usrLib \ {f} ELSE usrLib \cup {f}
  /\ UNCHANGED envUbuntu
  /\ UNCHANGED <<loaderVars, presenter, notifications_, objDelegate,
                 refcount, unrefs, image, svcOpen, errLog, removedBy, evlog,
                 delDestroyed, ub>>
  /\ UNCHANGED <<showVars, unityVars>>

----------------------------------------------------------------------------

\* Every operation, with the environment variable changing but /usr/lib
\* as it was at the start.
Next ==
  \/ Create
  \/ \E drawsNothing \in BOOLEAN, cbNonNull \in BOOLEAN, err \in BOOLEAN :
       ShowNotification(FreshDelegate, drawsNothing, cbNonNull, err)
  \/ \E n \in Handles, err \in BOOLEAN : CancelNotification(n, err)
  \/ \E n \in Handles, dies \in BOOLEAN : CancelNotificationDangling(n, dies)
  \/ \E n \in Handles \cup {NULL} : OnNotificationClosed(n)
  \/ \E n \in Handles \cup {NULL}, svcCloses \in BOOLEAN :
       OnNotificationView(n, svcCloses)
  \/ DestroyPresenter
  \/ \E n \in Handles : ServiceClosesOrphan(n)
  \/ \E b \in BOOLEAN : SetEnv(b)

Spec == Init /\ [][Next]_vars

\* Create and the destructor, under every environment.
NextCreate ==
  \/ Create
  \/ DestroyPresenter
  \/ \E b \in BOOLEAN : SetEnv(b)
  \/ \E f \in UsrLibEntries : ChangeUsrLib(f)

SpecCreate == InitCreate /\ [][NextCreate]_vars

\* The calls of UnityIsRunning (one per ShowNotification) while the
\* environment variable and /usr/lib change between them.
NextUnity ==
  \/ Create
  \/ \E drawsNothing \in BOOLEAN, cbNonNull \in BOOLEAN, err \in BOOLEAN :
       ShowNotification(FreshDelegate, drawsNothing, cbNonNull, err)
  \/ \E b \in BOOLEAN : SetEnv(b)
  \/ \E f \in UsrLibEntries : ChangeUsrLib(f)

SpecUnity == InitUnity /\ [][NextUnity]_vars

----------------------------------------------------------------------------
(* Properties                                                              *)

\* The handles created so far.
Created == 1..created

\* Number of times ev occurs in a delegate's log.
Count(log, ev) == Cardinality({i \in 1..Len(log) : log[i] = ev})

\* The events the delegate of handle n received.
EventsOf(n) == evlog[objDelegate[n]]

\* The presenter is alive and the run is free of undefined behaviour.
Running == presenter = "live" /\ ub = "none"

C2_DisplayedOnceIffShown ==
  \A n \in Created :
    /\ showRes[n] = "ok" <=> Count(EventsOf(n), "Displayed") = 1
    /\ showRes[n] = "err" <=> Count(EventsOf(n), "Displayed") = 0
    /\ showRes[n] = "ok" /\ removedBy[n] = "none" /\ presenter = "live" =>
         n \in TrackedSet /\ svcOpen[n]
    /\ showRes[n] = "err" => n \notin TrackedSet /\ ~svcOpen[n]
    /\ \A i, j \in 1..Len(notifications_) :
         i < j => notifications_[i] < notifications_[j]

\* A shown notification that has since been cancelled and a later one
\* whose show call failed.
C2_Witness ==
  \E n, m \in Created :
    /\ showRes[n] = "ok" /\ removedBy[n] = "cancel"
    /\ EventsOf(n) = <<"Displayed", "Closed">>
    /\ showRes[m] = "err"

\* C3: a closed callback for a tracked handle n delivers
\* NotificationClosed, and a click callback NotificationClick, to the
\* delegate that the ShowNotification call of n was given, and the log of
\* every other delegate stays as it was.
C3_CallbackReachesOwnDelegate ==
  [][\A n \in Handles :
       /\ (removedBy[n] = "none" /\ removedBy'[n] = "closed") =>
            evlog' = [evlog EXCEPT ![objDelegate[n]] = Append(@, "Closed")]
       /\ (removedBy[n] = "none" /\ removedBy'[n] = "click") =>
            evlog' = [evlog EXCEPT ![objDelegate[n]] = Append(@, "Click")]
    ]_vars

\* Two notifications were tracked; the one that is not at the head of the
\* list got a callback and the other is still tracked, its delegate
\* holding only NotificationDisplayed.
C3_Witness ==
  \E n, m \in Created :
    /\ n > m
    /\ removedBy[n] \in {"closed", "click"}
    /\ m \in TrackedSet
    /\ EventsOf(m) = <<"Displayed">>
    /\ Len(EventsOf(n)) = 2

\* C4: a ShowNotification call whose show call reports an error leaves
\* the tracked list, every delegate's log and the cancel closures as they
\* were, logs the error, and releases the new handle; afterwards the
\* handle stays untracked, without closure, released exactly once, its
\* delegate without any event.
C4_ShowErrorAbandons ==
  /\ [][\A n \in Handles :
          (showRes[n] = "none" /\ showRes'[n] = "err") =>
            /\ notifications_' = notifications_
            /\ evlog' = evlog
            /\ cancelCb' = cancelCb
            /\ errLog'[n] = "notify_notification_show"
            /\ unrefs'[n] = 1
            /\ refcount'[n] = 0
       ]_vars
  /\ [](\A n \in Created :
          showRes[n] = "err" =>
            /\ n \notin TrackedSet
            /\ n \notin cancelCb
            /\ EventsOf(n) = <<>>
            /\ unrefs[n] = 1
            /\ delDestroyed[objDelegate[n]] = 1
            /\ ~svcOpen[n])

\* A failed show with a non-null cancel_callback, while an earlier
\* notification is tracked.
C4_Witness ==
  \E n \in Created :
    /\ showRes[n] = "err"
    /\ cbGiven[n]
    /\ notifications_ # <<>>

\* C5 as stated: after a close error in CancelNotification the delegate
\* holds no NotificationClosed and the handle is still tracked and
\* unreleased.
C5_CloseErrorAbandons ==
  \A n \in Created :
    errLog[n] = "notify_notification_close" =>
      /\ n \in TrackedSet
      /\ unrefs[n] = 0
      /\ Count(EventsOf(n), "Closed") = 0

\* C5, amended: after a close error in CancelNotification the error is
\* logged and the cancel goes on: the delegate holds one
\* NotificationClosed and the handle is untracked and released once.
C5_CloseErrorStillCancels ==
  ub = "none" =>
    \A n \in Created :
      errLog[n] = "notify_notification_close" =>
        /\ removedBy[n] = "cancel"
        /\ n \notin TrackedSet
        /\ unrefs[n] = 1
        /\ refcount[n] = 0
        /\ EventsOf(n) = <<"Displayed", "Closed">>

\* A cancel whose close call failed: the service still has the
\* notification open.
C5_Witness ==
  /\ ub = "none"
  /\ \E n \in Created :
       errLog[n] = "notify_notification_close" /\ svcOpen[n]

\* C6: every delegate's log starts with NotificationDisplayed before any
\* NotificationClick or NotificationClosed, and a closed or click
\* callback only ever runs for a handle that is in the tracked list and
\* whose delegate already holds NotificationDisplayed.
C6_DisplayedBeforeCallbacks ==
  /\ [][\A n \in Handles :
          (removedBy[n] = "none" /\ removedBy'[n] \in {"closed", "click"}) =>
            /\ n \in TrackedSet
            /\ EventsOf(n) = <<"Displayed">>
       ]_vars
  /\ [](\A d \in Delegates :
          evlog[d] # <<>> =>
            /\ Head(evlog[d]) = "Displayed"
            /\ \A i \in 2..Len(evlog[d]) : evlog[d][i] # "Displayed")

\* A delegate that received NotificationDisplayed and then
\* NotificationClick.
C6_Witness ==
  \E d \in Delegates : evlog[d] = <<"Displayed", "Click">>

\* C7: Create returns a presenter exactly when one of the three libraries
\* loads and the library is already initialised or notify_init succeeds;
\* the libraries are tried in the order .so.4, .so.1, .so up to the first
\* that loads; notify_init is not called when the library is already
\* initialised; and when Create returns null the presenter it built is
\* destroyed.
C7_CreateIffLoadedAndInitialised ==
  createRet # "unset" =>
    /\ createRet = "presenter" <=>
         /\ libEnv.loadable # {}
         /\ libEnv.initted \/ libEnv.initOk
    /\ Len(loadTried) \in 1..Len(LibNames)
    /\ \A i \in 1..Len(loadTried) : loadTried[i] = LibNames[i]
    /\ \A i \in 1..(Len(loadTried) - 1) : loadTried[i] \notin libEnv.loadable
    /\ \/ loadTried[Len(loadTried)] \in libEnv.loadable
       \/ Len(loadTried) = Len(LibNames) /\ libEnv.loadable = {}
    /\ libEnv.initted => initCalls = 0
    /\ initCalls <= 1
    /\ createRet = "null" => presenter = "destroyed"
    /\ createRet = "presenter" => presenter \in {"live", "destroyed"}

\* Create succeeded on the second library without calling notify_init,
\* the library being initialised already.
C7_Witness ==
  /\ createRet = "presenter"
  /\ loadTried = <<"libnotify.so.4", "libnotify.so.1">>
  /\ libEnv.initted
  /\ ~libEnv.initOk
  /\ initCalls = 0

\* Create failed because notify_init failed.
C7_WitnessInitFails ==
  /\ createRet = "null"
  /\ libEnv.loadable # {}
  /\ initCalls = 1

\* C8: a notification has the "default" action exactly when
\* UnityIsRunning() returned false in the ShowNotification call that
\* created it, and the delegate of a notification shown while Unity was
\* detected never receives NotificationClick: it only ever holds
\* NotificationDisplayed and NotificationClosed.
C8_ActionIffNotUnity ==
  \A n \in Created :
    /\ actionReg[n] <=> unityAt[n] = "false"
    /\ unityAt[n] = "true" =>
         \A i \in 1..Len(EventsOf(n)) :
           EventsOf(n)[i] \in {"Displayed", "Closed"}

\* One notification shown under Unity and since closed, another shown
\* without Unity and clicked.
C8_Witness ==
  \E n, m \in Created :
    /\ unityAt[n] = "true" /\ EventsOf(n) = <<"Displayed", "Closed">>
    /\ unityAt[m] = "false" /\ EventsOf(m) = <<"Displayed", "Click">>

\* C9: the cancel closure of a notification exists exactly when
\* cancel_callback was non-null and the show call succeeded; running it
\* while the handle is tracked closes the notification at the service
\* (unless the close call reports an error), delivers one
\* NotificationClosed to the handle's delegate and to nobody else,
\* removes the handle from the list and releases it.
C9_CancelCallback ==
  /\ [](\A n \in Created :
          n \in cancelCb <=> (cbGiven[n] /\ showRes[n] = "ok"))
  /\ [][\A n \in Handles :
          (removedBy[n] = "none" /\ removedBy'[n] = "cancel") =>
            /\ n \in cancelCb
            /\ n \in TrackedSet
            /\ n \notin {notifications_'[i] : i \in 1..Len(notifications_')}
            /\ evlog' = [evlog EXCEPT ![objDelegate[n]] = Append(@, "Closed")]
            /\ Count(evlog'[objDelegate[n]], "Closed") = 1
            /\ errLog'[n] # "notify_notification_close" => ~svcOpen'[n]
            /\ unrefs'[n] = unrefs[n] + 1
            /\ refcount'[n] = 0
            /\ delDestroyed'[objDelegate[n]] = 1
       ]_vars

\* A tracked notification was cancelled through its closure, the close
\* call succeeding, while a shown notification without closure is still
\* tracked.
C9_Witness ==
  \E n, m \in Created :
    /\ removedBy[n] = "cancel"
    /\ errLog[n] = "none"
    /\ ~svcOpen[n]
    /\ m \in TrackedSet
    /\ ~cbGiven[m]

C10_WitnessStale ==
  /\ lastCall.made
  /\ ~lastCall.env
  /\ ~lastCall.ret
  /\ ScanUsrLib(usrLib)

\* C11: the destructor unrefs every handle that is tracked at that moment
\* once and no other handle, and delivers no event to any delegate; once
\* the presenter is destroyed no notification object is alive, so no
\* closed or click callback runs any more (no handle is ever again
\* removed by one, and no NotificationClick is delivered).
C11_DestructorReleasesTracked ==
  /\ [][(presenter = "live" /\ presenter' = "destroyed") =>
          /\ \A n \in Handles :
               /\ n \in TrackedSet =>
                    unrefs'[n] = unrefs[n] + 1 /\ unrefs'[n] = 1
               /\ n \notin TrackedSet => unrefs'[n] = unrefs[n]
          /\ evlog' = evlog
       ]_vars
  /\ [](presenter = "destroyed" => \A n \in Handles : refcount[n] = 0)
  /\ [][presenter = "destroyed" =>
          /\ \A n \in Handles :
               removedBy'[n] # removedBy[n] => removedBy'[n] = "destroy"
          /\ \A d \in Delegates :
               Count(evlog'[d], "Click") = Count(evlog[d], "Click")
       ]_vars

\* The presenter was destroyed while one handle was tracked and another
\* had already been removed by a closed callback: the first was unreffed
\* by the destructor, the second only by the callback, and the tracked
\* one's delegate holds nothing but NotificationDisplayed.
C11_Witness ==
  /\ presenter = "destroyed"
  /\ ub = "none"
  /\ \E n, m \in Created :
       /\ removedBy[n] = "destroy" /\ unrefs[n] = 1
       /\ EventsOf(n) = <<"Displayed">>
       /\ removedBy[m] = "closed" /\ unrefs[m] = 1

\* C12: a cancel closure only ever runs on a handle that is in the
\* tracked list of a live presenter: every step in which a closure
\* cancels a handle finds it tracked, and no closure ever runs on a
\* dangling pointer (ub leaves "none" exactly when one does).
C12_CancelOnlyOnTracked ==
  [][/\ \A n \in Handles :
          (removedBy[n] = "none" /\ removedBy'[n] = "cancel") =>
            presenter = "live" /\ n \in TrackedSet
     /\ ub' = "none"
    ]_vars

\* C13: the presenter unrefs every handle it created at most once.
C13_ReleasedAtMostOnce ==
  \A n \in Handles : unrefs[n] <= 1

\* C14: a delegate receives at most one terminal event, NotificationClick
\* or NotificationClosed, and once it has one its handle is untracked.
C14_OneTerminalEvent ==
  \A n \in Created :
    /\ Count(EventsOf(n), "Click") + Count(EventsOf(n), "Closed") <= 1
    /\ Count(EventsOf(n), "Click") + Count(EventsOf(n), "Closed") = 1 =>
         n \notin TrackedSet

\* C15: a delegate is destroyed at most once, it is destroyed exactly
\* when its handle holds no reference any more, and no event is delivered
\* to a delegate that has been destroyed.
C15_NoEventAfterDelegateDestroyed ==
  /\ [](\A n \in Created :
          /\ delDestroyed[objDelegate[n]] <= 1
          /\ delDestroyed[objDelegate[n]] = 1 <=> refcount[n] = 0)
  /\ [][\A d \in Delegates :
          evlog'[d] # evlog[d] => delDestroyed[d] = 0
       ]_vars

====
